---------------------------- MODULE Spec2Model ----------------------------
(***************************************************************************)
(* Model of the img2char orchestration layer:                              *)
(*   - the resumable chunked fetcher, download_with_resume, of             *)
(*     scripts/03_generate_characters/scripts/download_weights.py;         *)
(*   - the per-item pipeline runner, process_single, and the batch         *)
(*     scheduler in main of scripts/03_generate_characters/pipeline.py.    *)
(* The two components share no state; each has its own specification       *)
(* (FetchSpec and BatchSpec, with their fair versions FetchFairSpec and   *)
(* BatchFairSpec) that leaves the other's variables alone.                 *)
(***************************************************************************)
EXTENDS Integers, Sequences, FiniteSets, TLC

VARIABLES
    \* ---- fetcher: environment -------------------------------------------
    remote,             \* content of the remote file, a sequence of bytes
    dest,               \* the destination file on disk
    partial,            \* the file <dest>.partial on disk
    \* ---- fetcher: locals of download_with_resume ------------------------
    pc,                 \* position in download_with_resume
    chunk_size_mb,      \* parameter of the call
    remote_size,        \* result of get_remote_size (NoneSize for None)
    current_size,       \* line 90
    range_end,          \* line 97
    bytes_this_request, \* line 104
    body,               \* bytes of the response still to be read
    result,             \* what the call returned: "none", "True", "False", "raised"
    \* ---- fetcher: history (observations only, never read by the code) ----
    calls,              \* number of calls started
    nHead,              \* HEAD requests sent by the current call
    nGet,               \* ranged GETs sent by the current call (saturating)
    nRename,            \* renames performed by the current call
    startDest,          \* dest when the current call started
    startPartial,       \* partial when the current call started
    written,            \* bytes written to partial by the current call
    firstOffset,        \* offset of the current call's first ranged GET, or -1
    err,                \* what the last failed ranged GET failed with
    errAt,              \* after a GET error: offset of that GET plus the bytes it wrote, else -1
    prevResult,         \* what the previous call returned, "none" for the first call
    \* ---- pipeline --------------------------------------------------------
    cfg,                \* the configuration main was started with
    item,               \* per item: state of its process_single
    results,            \* main's results list
    manifest,           \* manifest.json: times written, and its 'characters' array
    mainpc,             \* position in main: "start", "run", "done", "exit" ("off": not run)
    \* ---- discovery, concurrent fetches, call_api --------------------------
    disc,               \* a call of find_images: its input, the files there, its result
    conc,               \* two download_with_resume calls on one destination
    api                 \* a call of call_api: its locals and the requests it sent

fetchVars == <<remote, dest, partial, pc, chunk_size_mb, remote_size, current_size,
               range_end, bytes_this_request, body, result, calls, nHead, nGet,
               nRename, startDest, startPartial, written, firstOffset, err, errAt,
               prevResult>>

batchVars == <<cfg, item, results, manifest, mainpc>>

restVars == <<disc, conc, api>>

vars == <<fetchVars, batchVars, restVars>>

(***************************************************************************)
(* Bounds of the model.                                                    *)
(***************************************************************************)
MaxRemoteLen == 4       \* the remote file holds 1..MaxRemoteLen bytes
MaxChunkMb == 2         \* --chunk-size ranges over 1..MaxChunkMb
MaxCalls == 2           \* download_with_resume is called at most MaxCalls times
MaxGets == 3            \* nGet stops counting at MaxGets
MaxWorkers == 2         \* --workers ranges over 0..MaxWorkers

(***************************************************************************)
(* Program constants.  One MiB (1024 * 1024 in the source) is scaled to    *)
(* MiB model bytes, so that a chunk holds several read increments and a    *)
(* file need not be a whole number of them.                                *)
(***************************************************************************)
MiB == 2
NoneSize == -1          \* Python's None as a size

Min(a, b) == IF a < b THEN a ELSE b

(***************************************************************************)
(* Files.  A file is present with its bytes, or absent.                    *)
(***************************************************************************)
NoFile == [exists |-> FALSE, data |-> <<>>]
File(bytes) == [exists |-> TRUE, data |-> bytes]

\* partial.stat().st_size if partial.exists() else 0
SizeOrZero(f) == IF f.exists THEN Len(f.data) ELSE 0

Prefix(s, n) == SubSeq(s, 1, n)
IsPrefix(s, t) == Len(s) <= Len(t) /\ s = SubSeq(t, 1, Len(s))

RemoteOfLen(n) == [i \in 1..n |-> i]
Junk(n) == [i \in 1..n |-> 0]

\* Python truthiness of remote_size: None and 0 are falsy.
Truthy(size) == size # NoneSize /\ size # 0

\* Line 55.
chunk_bytes == chunk_size_mb * MiB
\* Line 105.
read_chunk == MiB

\* Mutant of ResumeOffset: every request starts at the beginning of the file.
ResumeOffset_Restart(f) == 0

\* Line 90: the offset of the next request is the partial file's length on disk.
ResumeOffset(f) == SizeOrZero(f)

\* Mutant of RangeEnd: the range holds one byte more than a chunk.
RangeEnd_OneMore(offset) == offset + chunk_bytes

\* Line 97: the last byte of the range that starts at offset.
RangeEnd(offset) == offset + chunk_bytes - 1

\* Mutant of OpenForAppend: the file is opened with "wb", which truncates it.
OpenForWrite(f) == File(<<>>)

\* Line 108: open(partial, "ab") creates a missing file and keeps the bytes of
\* an existing one.
OpenForAppend(f) == IF f.exists THEN f ELSE File(<<>>)


(***************************************************************************)
(* The fetcher.  Variables a step of download_with_resume leaves alone.    *)
(***************************************************************************)
fetchLocals == <<chunk_size_mb, remote_size, current_size, range_end,
                 bytes_this_request, body>>
fetchHistory == <<calls, nHead, nGet, nRename, startDest, startPartial, written,
                  firstOffset, err, errAt, prevResult>>

\* A partial file left by earlier runs: absent, a prefix of the remote file,
\* the remote file followed by a foreign byte, or foreign bytes.
InitialPartials(r) ==
    {NoFile} \cup {File(Prefix(r, k)) : k \in 0..Len(r)}
             \cup {File(r \o <<0>>)}
             \cup {File(Junk(k)) : k \in 1..(Len(r) + 1)}

\* A destination left by earlier runs: absent, complete, truncated or over-long.
InitialDests(r) ==
    {NoFile} \cup {File(Prefix(r, k)) : k \in 0..Len(r)} \cup {File(r \o <<0>>)}

FetchInit ==
    /\ remote \in {RemoteOfLen(n) : n \in 1..MaxRemoteLen}
    /\ dest \in InitialDests(remote)
    /\ partial \in InitialPartials(remote)
    /\ pc = "idle"
    /\ chunk_size_mb = 1
    /\ remote_size = NoneSize
    /\ current_size = 0
    /\ range_end = 0
    /\ bytes_this_request = 0
    /\ body = <<>>
    /\ result = "none"
    /\ calls = 0
    /\ nHead = 0
    /\ nGet = 0
    /\ nRename = 0
    /\ startDest = NoFile
    /\ startPartial = NoFile
    /\ written = <<>>
    /\ firstOffset = -1
    /\ err = "none"
    /\ errAt = -1
    /\ prevResult = "none"
    \* the pipeline is not running
    /\ cfg = <<>>
    /\ item = <<>>
    /\ results = <<>>
    /\ manifest = <<>>
    /\ mainpc = "off"
    /\ disc = [pc |-> "off"]
    /\ conc = [pc |-> "off"]
    /\ api = [pc |-> "off"]

\* download_with_resume(url, dest, chunk_size_mb) is called (lines 49-55).
Call(mb) ==
    /\ pc \in {"idle", "returned", "raised"}
    /\ calls < MaxCalls
    /\ pc' = "probe"
    /\ chunk_size_mb' = mb
    /\ remote_size' = NoneSize
    /\ current_size' = 0
    /\ range_end' = 0
    /\ bytes_this_request' = 0
    /\ body' = <<>>
    /\ result' = "none"
    /\ calls' = calls + 1
    /\ nHead' = 0
    /\ nGet' = 0
    /\ nRename' = 0
    /\ startDest' = dest
    /\ startPartial' = partial
    /\ written' = <<>>
    /\ firstOffset' = -1
    /\ err' = "none"
    /\ errAt' = -1
    /\ prevResult' = result
    /\ UNCHANGED <<batchVars, restVars, remote, dest, partial>>

\* get_remote_size: the HEAD request answers with a Content-Length.
HeadSize ==
    /\ pc = "probe"
    /\ remote_size' = Len(remote)
    /\ nHead' = nHead + 1
    /\ pc' = "check_dest"
    /\ UNCHANGED <<batchVars, restVars, remote, dest, partial, chunk_size_mb, current_size, range_end,
                   bytes_this_request, body, result, calls, nGet, nRename, startDest,
                   startPartial, written, firstOffset, err, errAt, prevResult>>

\* get_remote_size: URLError, or a response without Content-Length: None.
HeadNone ==
    /\ pc = "probe"
    /\ remote_size' = NoneSize
    /\ nHead' = nHead + 1
    /\ pc' = "check_dest"
    /\ UNCHANGED <<batchVars, restVars, remote, dest, partial, chunk_size_mb, current_size, range_end,
                   bytes_this_request, body, result, calls, nGet, nRename, startDest,
                   startPartial, written, firstOffset, err, errAt, prevResult>>

\* get_remote_size: an error that is no URLError (TimeoutError, ConnectionError
\* while the response is read) is not caught at line 45 and leaves
\* download_with_resume as an exception.
HeadRaise ==
    /\ pc = "probe"
    /\ nHead' = nHead + 1
    /\ pc' = "raised"
    /\ result' = "raised"
    /\ UNCHANGED <<batchVars, restVars, remote, dest, partial, fetchLocals, calls, nGet, nRename, startDest,
                   startPartial, written, firstOffset, err, errAt, prevResult>>

\* Mutant of CheckDest: an existing destination is success whatever its size.
CheckDest_KeepStale ==
    /\ pc = "check_dest"
    /\ IF dest.exists
       THEN /\ pc' = "returned"
            /\ result' = "True"
       ELSE /\ pc' = "resume"
            /\ result' = result
    /\ UNCHANGED <<batchVars, restVars, remote, dest, partial, fetchLocals, fetchHistory>>

\* Lines 62-68: the destination is already there.
CheckDest ==
    /\ pc = "check_dest"
    /\ IF dest.exists
       THEN IF Truthy(remote_size) /\ Len(dest.data) = remote_size
            THEN /\ pc' = "returned"
                 /\ result' = "True"
                 /\ dest' = dest
            ELSE /\ pc' = "resume"
                 /\ result' = result
                 /\ dest' = NoFile
       ELSE /\ pc' = "resume"
            /\ result' = result
            /\ dest' = dest
    /\ UNCHANGED <<batchVars, restVars, remote, partial, fetchLocals, fetchHistory>>

\* Mutant of ResumeFromPartial: a partial file is never promoted.
ResumeFromPartial_NoPromote ==
    /\ pc = "resume"
    /\ pc' = "loop"
    /\ UNCHANGED <<batchVars, restVars, remote, dest, partial, nRename, result, fetchLocals, calls, nHead,
                   nGet, startDest, startPartial, written, firstOffset, err, errAt,
                   prevResult>>

\* Lines 70-87: resume from the partial file, or promote it.
ResumeFromPartial ==
    /\ pc = "resume"
    /\ LET existing_size == SizeOrZero(partial)
       IN IF existing_size > 0 /\ Truthy(remote_size) /\ existing_size >= remote_size
          THEN /\ dest' = partial
               /\ partial' = NoFile
               /\ nRename' = nRename + 1
               /\ pc' = "returned"
               /\ result' = "True"
          ELSE /\ pc' = "loop"
               /\ UNCHANGED <<dest, partial, nRename, result>>
    /\ UNCHANGED <<batchVars, restVars, remote, fetchLocals, calls, nHead, nGet, startDest, startPartial,
                   written, firstOffset, err, errAt, prevResult>>

\* Lines 89-100: the head of the download loop builds the next ranged request.
LoopTop ==
    /\ pc = "loop"
    /\ current_size' = ResumeOffset(partial)
    /\ IF Truthy(remote_size) /\ current_size' >= remote_size
       THEN /\ pc' = "verify"
            /\ UNCHANGED <<range_end, bytes_this_request, nGet, firstOffset>>
       ELSE /\ range_end' = RangeEnd(current_size')
            /\ bytes_this_request' = 0
            /\ nGet' = Min(nGet + 1, MaxGets)
            /\ firstOffset' = IF nGet = 0 THEN current_size' ELSE firstOffset
            /\ pc' = "urlopen"
    /\ errAt' = -1
    /\ UNCHANGED <<batchVars, restVars, remote, dest, partial, chunk_size_mb, remote_size, body, result,
                   calls, nHead, nRename, startDest, startPartial, written, err,
                   prevResult>>

\* What a range-honouring server sends for bytes=first-last.
RangeBody(first, last) == SubSeq(remote, first + 1, Min(Len(remote), last + 1))

\* Lines 107-108: the server answers 206 and the partial file is opened for append.
UrlopenOk ==
    /\ pc = "urlopen"
    /\ current_size < Len(remote)
    /\ body' = RangeBody(current_size, range_end)
    /\ partial' = OpenForAppend(partial)
    /\ pc' = "stream"
    /\ UNCHANGED <<batchVars, restVars, remote, dest, chunk_size_mb, remote_size, current_size, range_end,
                   bytes_this_request, result, fetchHistory>>

\* Line 107: the range starts at or past the end of the file; the server answers
\* 416 Range Not Satisfiable, which urlopen raises as HTTPError.
UrlopenRangeNotSatisfiable ==
    /\ pc = "urlopen"
    /\ current_size >= Len(remote)
    /\ err' = "HTTPError416"
    /\ pc' = "except"
    /\ UNCHANGED <<batchVars, restVars, remote, dest, partial, fetchLocals, result, calls, nHead, nGet,
                   nRename, startDest, startPartial, written, firstOffset, errAt,
                   prevResult>>

\* Line 107: a network error before any byte of the body.
UrlopenError ==
    /\ pc = "urlopen"
    /\ err' = "network"
    /\ pc' = "except"
    /\ UNCHANGED <<batchVars, restVars, remote, dest, partial, fetchLocals, result, calls, nHead, nGet,
                   nRename, startDest, startPartial, written, firstOffset, errAt,
                   prevResult>>

\* Mutant of ReadPiece: the bytes received are appended to the destination.
ReadPiece_ToDest ==
    /\ pc = "stream"
    /\ body # <<>>
    /\ LET n == Min(read_chunk, Len(body))
           piece == SubSeq(body, 1, n)
       IN /\ dest' = File(dest.data \o piece)
          /\ written' = written \o piece
          /\ bytes_this_request' = bytes_this_request + n
          /\ body' = SubSeq(body, n + 1, Len(body))
    /\ UNCHANGED <<batchVars, restVars, remote, partial, pc, chunk_size_mb, remote_size, current_size,
                   range_end, result, calls, nHead, nGet, nRename, startDest,
                   startPartial, firstOffset, err, errAt, prevResult>>

\* Lines 110-115: one read increment is appended to the partial file and flushed.
ReadPiece ==
    /\ pc = "stream"
    /\ body # <<>>
    /\ LET n == Min(read_chunk, Len(body))
           piece == SubSeq(body, 1, n)
       IN /\ partial' = File(partial.data \o piece)
          /\ written' = written \o piece
          /\ bytes_this_request' = bytes_this_request + n
          /\ body' = SubSeq(body, n + 1, Len(body))
    /\ UNCHANGED <<batchVars, restVars, remote, dest, pc, chunk_size_mb, remote_size, current_size,
                   range_end, result, calls, nHead, nGet, nRename, startDest,
                   startPartial, firstOffset, err, errAt, prevResult>>

\* Lines 110-112: the body is exhausted, resp.read returns b"".
ReadEnd ==
    /\ pc = "stream"
    /\ body = <<>>
    /\ pc' = "after_body"
    /\ UNCHANGED <<batchVars, restVars, remote, dest, partial, fetchLocals, result, fetchHistory>>

\* Lines 110-112: the connection is closed early without an error, resp.read
\* returns b"" although the body is not exhausted.
ReadTruncated ==
    /\ pc = "stream"
    /\ body # <<>>
    /\ body' = <<>>
    /\ pc' = "after_body"
    /\ UNCHANGED <<batchVars, restVars, remote, dest, partial, chunk_size_mb, remote_size, current_size,
                   range_end, bytes_this_request, result, fetchHistory>>

\* Line 110: a network error while the body is streamed.  Once the whole body
\* has been read, resp.read returns b"" without touching the connection.
ReadError ==
    /\ pc = "stream"
    /\ body # <<>>
    /\ body' = <<>>
    /\ err' = "network"
    /\ pc' = "except"
    /\ UNCHANGED <<batchVars, restVars, remote, dest, partial, chunk_size_mb, remote_size, current_size,
                   range_end, bytes_this_request, result, calls, nHead, nGet, nRename,
                   startDest, startPartial, written, firstOffset, errAt, prevResult>>

\* Mutant of AfterBody: only an empty response ends the loop.
AfterBody_OnlyEmpty ==
    /\ pc = "after_body"
    /\ pc' = IF bytes_this_request = 0 THEN "verify" ELSE "loop"
    /\ UNCHANGED <<batchVars, restVars, remote, dest, partial, fetchLocals, result, fetchHistory>>

\* Lines 130-138: leave the loop after an empty or a short response.
AfterBody ==
    /\ pc = "after_body"
    /\ pc' = IF bytes_this_request = 0 \/ bytes_this_request < chunk_bytes
             THEN "verify"
             ELSE "loop"
    /\ UNCHANGED <<batchVars, restVars, remote, dest, partial, fetchLocals, result, fetchHistory>>

\* Mutant of ExceptHandler: after MaxGets requests the call gives up.
ExceptHandler_GiveUp ==
    /\ pc = "except"
    /\ errAt' = current_size + bytes_this_request
    /\ IF nGet >= MaxGets
       THEN pc' = "returned" /\ result' = "False"
       ELSE pc' = "loop" /\ result' = result
    /\ UNCHANGED <<batchVars, restVars, remote, dest, partial, fetchLocals, calls, nHead, nGet,
                   nRename, startDest, startPartial, written, firstOffset, err,
                   prevResult>>

\* Mutant of ExceptHandler: an error of the request ends the call with failure.
ExceptHandler_Fatal ==
    /\ pc = "except"
    /\ errAt' = current_size + bytes_this_request
    /\ pc' = "returned"
    /\ result' = "False"
    /\ UNCHANGED <<batchVars, restVars, remote, dest, partial, fetchLocals, calls, nHead, nGet,
                   nRename, startDest, startPartial, written, firstOffset, err,
                   prevResult>>

\* Lines 140-147: the handler of every exception of the request: wait, then continue.
ExceptHandler ==
    /\ pc = "except"
    /\ errAt' = current_size + bytes_this_request
    /\ pc' = "loop"
    /\ UNCHANGED <<batchVars, restVars, remote, dest, partial, fetchLocals, result, calls, nHead, nGet,
                   nRename, startDest, startPartial, written, firstOffset, err,
                   prevResult>>

\* Mutant of Verify: a partial file of the wrong size is removed.
Verify_UnlinkOnMismatch ==
    /\ pc = "verify"
    /\ LET final_size == SizeOrZero(partial)
       IN IF Truthy(remote_size) /\ final_size # remote_size
          THEN /\ pc' = "returned"
               /\ result' = "False"
               /\ partial' = NoFile
               /\ UNCHANGED <<dest, nRename>>
          ELSE IF partial.exists
               THEN /\ dest' = partial
                    /\ partial' = NoFile
                    /\ nRename' = nRename + 1
                    /\ pc' = "returned"
                    /\ result' = "True"
               ELSE \* partial.rename raises FileNotFoundError
                    /\ pc' = "raised"
                    /\ result' = "raised"
                    /\ UNCHANGED <<dest, partial, nRename>>
    /\ UNCHANGED <<batchVars, restVars, remote, fetchLocals, calls, nHead, nGet, startDest, startPartial,
                   written, firstOffset, err, errAt, prevResult>>

\* Lines 149-158: verify the final size, then rename the partial file.
Verify ==
    /\ pc = "verify"
    /\ LET final_size == SizeOrZero(partial)
       IN IF Truthy(remote_size) /\ final_size # remote_size
          THEN /\ pc' = "returned"
               /\ result' = "False"
               /\ UNCHANGED <<dest, partial, nRename>>
          ELSE IF partial.exists
               THEN /\ dest' = partial
                    /\ partial' = NoFile
                    /\ nRename' = nRename + 1
                    /\ pc' = "returned"
                    /\ result' = "True"
               ELSE \* partial.rename raises FileNotFoundError
                    /\ pc' = "raised"
                    /\ result' = "raised"
                    /\ UNCHANGED <<dest, partial, nRename>>
    /\ UNCHANGED <<batchVars, restVars, remote, fetchLocals, calls, nHead, nGet, startDest, startPartial,
                   written, firstOffset, err, errAt, prevResult>>

FetchNext ==
    \/ \E mb \in 1..MaxChunkMb : Call(mb)
    \/ HeadSize
    \/ HeadNone
    \/ HeadRaise
    \/ CheckDest
    \/ ResumeFromPartial
    \/ LoopTop
    \/ UrlopenOk
    \/ UrlopenRangeNotSatisfiable
    \/ UrlopenError
    \/ ReadPiece
    \/ ReadEnd
    \/ ReadTruncated
    \/ ReadError
    \/ AfterBody
    \/ ExceptHandler
    \/ Verify

FetchSpec == FetchInit /\ [][FetchNext]_vars

\* The steps of download_with_resume itself are always taken (the sleep of
\* line 146 ends); of the network it is assumed that a request that is sent
\* again and again is answered at some time, and that a response that is
\* read again and again delivers a piece at some time.
FetchFairSpec ==
    /\ FetchSpec
    /\ WF_vars(CheckDest \/ ResumeFromPartial \/ LoopTop \/ ReadEnd \/ AfterBody
                  \/ ExceptHandler \/ Verify)
    /\ SF_vars(UrlopenOk)
    /\ SF_vars(ReadPiece)


(***************************************************************************)
(* The pipeline.  A directory path is the sequence of its components from  *)
(* the filesystem root; an image path is its directory, and the stem and   *)
(* extension of its file name.                                             *)
(***************************************************************************)
Image(dir, stem, ext) == [dir |-> dir, stem |-> stem, ext |-> ext]

\* Python's None and a present value, for optional settings.
None == [none |-> TRUE]
Some(v) == [none |-> FALSE, val |-> v]

\* The image files below the input directory, relative to it, in the order of
\* their paths: items/sword.png, monsters/bat.png, monsters/undead/orc.png.
tree ==
    << Image(<<"items">>, "sword", "png"),
       Image(<<"monsters">>, "bat", "png"),
       Image(<<"monsters", "undead">>, "orc", "png") >>

\* Another content of the input directory: two image files of one directory
\* with the same stem, monsters/bat.jpg and monsters/bat.png.
twins ==
    << Image(<<"monsters">>, "bat", "jpg"),
       Image(<<"monsters">>, "bat", "png") >>

\* Lines 304-314: the resolved --input, /assets when it names a directory and
\* /assets/hero.png when it names a single image file.
InputDir == <<"assets">>
InputFile == Image(InputDir, "hero", "png")

\* Lines 82-91: the one file, or the image files below the directory in sorted
\* order; nothing when the path does not exist or holds no image.
find_images(input) ==
    CASE input = "file" -> <<InputFile>>
      [] input = "dir" ->
            [i \in 1..Len(tree) |-> Image(InputDir \o tree[i].dir, tree[i].stem, tree[i].ext)]
      [] input = "twins" ->
            [i \in 1..Len(twins) |-> Image(InputDir \o twins[i].dir, twins[i].stem, twins[i].ext)]
      [] OTHER -> <<>>

\* Line 328.
images == find_images(cfg.input)

\* The items process_single is called for.
Items == DOMAIN item

\* Line 334: the parent directory when the input is a single file.
input_root == IF cfg.input = "file" THEN InputFile.dir ELSE InputDir

\* Line 318.
output_dir == cfg.output_dir

\* Mutant of relative_output_dir: the parent directories are dropped.
relative_output_dir_Flat(image_path, root, out) == out \o <<image_path.stem>>

\* Lines 94-104: rel = image_path.relative_to(input_root), then
\* output_dir / rel.parent / rel.stem.  Every image is below input_root.
relative_output_dir(image_path, root, out) ==
    LET rel_parent == SubSeq(image_path.dir, Len(root) + 1, Len(image_path.dir))
    IN  out \o rel_parent \o <<image_path.stem>>

\* str(image_path) as a sequence of tokens, "/" and the names between:
\* "/", "assets", "/", "monsters", "/", "bat.png".
RECURSIVE Slashed(_)
Slashed(dir) == IF dir = <<>> THEN <<>> ELSE <<"/", Head(dir)>> \o Slashed(Tail(dir))

path_str(image_path) ==
    Slashed(image_path.dir) \o <<"/", image_path.stem \o "." \o image_path.ext>>

\* Python's "sub in s" and s.startswith(sub) on token sequences.
Contains(s, sub) ==
    \E k \in 0..(Len(s) - Len(sub)) : SubSeq(s, k + 1, k + Len(sub)) = sub

StartsWith(s, sub) == Len(sub) <= Len(s) /\ SubSeq(s, 1, Len(sub)) = sub

\* Mutant of should_rig: the patterns are ignored.
should_rig_All(image_path, rig_dirs) == TRUE

\* Lines 203-212: without patterns every image is rigged; with patterns, "/d/"
\* occurs in the path or the path starts with "d/", for one pattern d.
should_rig(image_path, rig_dirs) ==
    \/ rig_dirs.none
    \/ \E k \in 1..Len(rig_dirs.val) :
          LET d == rig_dirs.val[k]
          IN  \/ Contains(path_str(image_path), <<"/", d, "/">>)
              \/ StartsWith(path_str(image_path), <<d, "/">>)

\* The number of faces of the mesh generate_mesh makes of each image.
FacesOf(name) ==
    CASE name = "sword" -> 1
      [] name = "bat" -> 2
      [] name = "orc" -> 3
      [] name = "hero" -> 2

\* Mutant of decimate_mesh: the mesh is simplified and exported whatever its
\* face count.
decimate_mesh_Always(r, max_faces, new_faces) ==
    [r EXCEPT !.simplified = @ + 1,
              !.mesh_writes = @ + 1,
              !.faces = new_faces,
              !.decimated = <<r.faces, new_faces>>]

\* Lines 162-175: a mesh at or below the ceiling is returned as it is, with its
\* face count twice; otherwise the mesh is simplified, exported over the mesh
\* file, and its old and new face counts are returned.
decimate_mesh(r, max_faces, new_faces) ==
    IF r.faces <= max_faces
    THEN [r EXCEPT !.decimated = <<r.faces, r.faces>>]
    ELSE [r EXCEPT !.simplified = @ + 1,
                   !.mesh_writes = @ + 1,
                   !.faces = new_faces,
                   !.decimated = <<r.faces, new_faces>>]

\* Lines 56-64 and 229-231: the CharacterResult process_single starts with and
\* its output directory, together with the position of process_single, the
\* stages it has invoked and how each ended ("-" while it has not); and the
\* mesh file: its face count, how often it was written and simplified, and the
\* face counts decimate_mesh returned.
NewResult(img) ==
    [st |-> "pending", invoked |-> <<>>, worker |-> -1,
     fate |-> [mesh |-> "-", decimate |-> "-", rig |-> "-"],
     name |-> img.stem, image |-> img,
     char_output |-> relative_output_dir(img, input_root, output_dir),
     mesh_path |-> <<>>, rigged_path |-> <<>>,
     mesh_timed |-> FALSE, rig_timed |-> FALSE, error |-> "",
     faces |-> 0, mesh_writes |-> 0, simplified |-> 0, decimated |-> <<>>,
     rig_exit |-> -1, rig_output |-> FALSE]

\* Mutant of RigWanted: the workers of the pool leave the rig stage out.
RigWanted_NotInPool(img) ==
    /\ cfg.workers <= 1
    /\ ~cfg.skip_rig
    /\ should_rig(img, cfg.rig_dirs)
    /\ cfg.blender_bin

\* Line 259-260: the rig stage runs for this image.
RigWanted(img) ==
    /\ ~cfg.skip_rig
    /\ should_rig(img, cfg.rig_dirs)
    /\ cfg.blender_bin

\* Mutant of AfterDecimate: an image that does not pass the rig gate is
\* reported as failed.
AfterDecimate_SkipIsError(r) ==
    IF RigWanted(r.image)
    THEN [r EXCEPT !.st = "rig", !.invoked = @ \o <<"rig">>]
    ELSE [r EXCEPT !.st = "returned", !.error = "rigging skipped"]

\* Lines 258-270: after the mesh and the decimation, rig or return.
AfterDecimate(r) ==
    IF RigWanted(r.image)
    THEN [r EXCEPT !.st = "rig", !.invoked = @ \o <<"rig">>]
    ELSE [r EXCEPT !.st = "returned"]

\* Mutant of AfterMesh: the decimation is left out.
AfterMesh_NoDecimate(r) == AfterDecimate(r)

\* Lines 245-248: after the mesh, decimate if a face ceiling is set.
AfterMesh(r) ==
    IF ~cfg.max_faces.none
    THEN [r EXCEPT !.st = "decimate", !.invoked = @ \o <<"decimate">>]
    ELSE AfterDecimate(r)

\* Mutant of MeshFailure: the error of the mesh stage is not recorded.
MeshFailure_NoError(r) == [r EXCEPT !.st = "returned"]

\* Mutant of MeshFailure: the handler does not return, and the next stage runs.
MeshFailure_FallThrough(r) == AfterMesh([r EXCEPT !.error = "mesh generation"])

\* Lines 240-243: generate_mesh raised.
MeshFailure(r) == [r EXCEPT !.error = "mesh generation", !.st = "returned"]

\* Lines 236-239: generate_mesh returned the mesh path.
MeshSuccess(r) ==
    AfterMesh([r EXCEPT !.mesh_timed = TRUE,
                        !.mesh_path = r.char_output \o <<"0", "mesh.obj">>,
                        !.faces = FacesOf(r.name),
                        !.mesh_writes = 1])

\* Mutant of DecimateFailure: the mesh path is taken back.
DecimateFailure_ClearMesh(r) ==
    [r EXCEPT !.error = "decimation", !.mesh_path = <<>>, !.st = "returned"]

\* Lines 253-256: decimate_mesh raised.
DecimateFailure(r) == [r EXCEPT !.error = "decimation", !.st = "returned"]

\* Lines 271-273: rig_mesh returned.
RigSuccess(r) ==
    [r EXCEPT !.rig_timed = TRUE,
              !.rigged_path = r.char_output \o <<r.name \o "_rigged", cfg.export_format>>,
              !.st = "returned"]

\* Mutant of RigFailure: the exception of the rig stage leaves process_single.
RigFailure_Raises(r) == [r EXCEPT !.st = "raised"]

\* Lines 274-278: rig_mesh raised.
RigFailure(r) == [r EXCEPT !.error = "rigging", !.st = "returned"]

Running == {i \in Items : item[i].st \in {"mesh", "decimate", "rig"}}

BatchInit ==
    /\ cfg \in [workers : 0..MaxWorkers,
                skip_rig : BOOLEAN,
                blender_bin : BOOLEAN,
                rig_dirs : {None, Some(<<"monsters">>), Some(<<"player", "items">>)},
                max_faces : {None, Some(2)},
                export_format : {"fbx"},
                output_dir : {<<"out">>, <<"tmp", "out">>},
                input : {"missing", "empty", "dir", "twins", "file"},
                triposr : BOOLEAN]
    /\ item = <<>>
    /\ results = <<>>
    /\ manifest = [writes |-> 0, val |-> <<>>]
    /\ mainpc = "start"
    /\ disc = [pc |-> "off"]
    /\ conc = [pc |-> "off"]
    /\ api = [pc |-> "off"]
    \* the fetcher is not running
    /\ remote = <<>>
    /\ dest = NoFile
    /\ partial = NoFile
    /\ pc = "off"
    /\ chunk_size_mb = 1
    /\ remote_size = NoneSize
    /\ current_size = 0
    /\ range_end = 0
    /\ bytes_this_request = 0
    /\ body = <<>>
    /\ result = "none"
    /\ calls = 0
    /\ nHead = 0
    /\ nGet = 0
    /\ nRename = 0
    /\ startDest = NoFile
    /\ startPartial = NoFile
    /\ written = <<>>
    /\ firstOffset = -1
    /\ err = "none"
    /\ errAt = -1
    /\ prevResult = "none"

\* Mutant of Preconditions: an empty discovery is not checked.
Preconditions_NoImageCheck == cfg.triposr

\* Lines 322-331: the mesh engine is installed and find_images found an image.
Preconditions == cfg.triposr /\ images # <<>>

\* Lines 304-334: main exits with status 1 when a precondition fails, and
\* otherwise goes on to the processing of the images found.
Validate ==
    /\ mainpc = "start"
    /\ IF Preconditions
       THEN /\ mainpc' = "run"
            /\ item' = [i \in 1..Len(images) |-> NewResult(images[i])]
       ELSE /\ mainpc' = "exit"
            /\ item' = item
    /\ UNCHANGED <<fetchVars, restVars, cfg, results, manifest>>

\* Mutant of MayStart: the rule of the pool is applied for every worker count.
MayStart_Pool(i) == Cardinality(Running) < 2

\* Lines 360-381: with workers > 1 a worker of the pool is free; otherwise main
\* has appended the result of every earlier image.
MayStart(i) ==
    IF cfg.workers > 1
    THEN Cardinality(Running) < cfg.workers
    ELSE \A j \in Items : j < i => item[j].st = "collected"

\* Mutant of IdleWorkers: a worker of the pool takes a call while it runs one.
IdleWorkers_All == 1..cfg.workers

\* Lines 362-371: the processes of ProcessPoolExecutor(max_workers=workers)
\* that are not running a submitted call; each runs one call at a time.
IdleWorkers == {w \in 1..cfg.workers : \A j \in Running : item[j].worker # w}

\* Lines 360-381: the process that runs process_single for the next image: an
\* idle worker of the pool (the least one, the workers being interchangeable)
\* when workers > 1, and main itself, process 0, otherwise.
WorkerFor ==
    IF cfg.workers > 1
    THEN CHOOSE w \in IdleWorkers : \A v \in IdleWorkers : w <= v
    ELSE 0

\* Lines 360-381: process_single starts for the next image, in a free worker of
\* the pool (workers > 1) or in main itself once the previous image is done; its
\* first stage, generate_mesh, is invoked (lines 229-236).
Start(i) ==
    /\ mainpc = "run"
    /\ item[i].st = "pending"
    /\ \A j \in Items : j < i => item[j].st # "pending"
    /\ MayStart(i)
    /\ item' = [item EXCEPT ![i] = [@ EXCEPT !.st = "mesh", !.worker = WorkerFor,
                                              !.invoked = @ \o <<"mesh">>]]
    /\ UNCHANGED <<fetchVars, restVars, cfg, results, manifest, mainpc>>

\* Lines 233-243: generate_mesh returns or raises.
MeshDone(i, ok) ==
    /\ item[i].st = "mesh"
    /\ LET r == [item[i] EXCEPT !.fate.mesh = IF ok THEN "ok" ELSE "fail"]
       IN item' = [item EXCEPT ![i] = IF ok THEN MeshSuccess(r) ELSE MeshFailure(r)]
    /\ UNCHANGED <<fetchVars, restVars, cfg, results, manifest, mainpc>>

\* Line 167: the face counts simplify_quadric_decimation may come to, at most
\* the ceiling it was given.
NewFaceCounts == IF cfg.max_faces.none THEN {} ELSE 1..cfg.max_faces.val

\* Lines 245-256: decimate_mesh returns, the simplified mesh having new_faces
\* faces if it was simplified, or raises.
DecimateDone(i, ok, new_faces) ==
    /\ item[i].st = "decimate"
    /\ LET r == [item[i] EXCEPT !.fate.decimate = IF ok THEN "ok" ELSE "fail"]
       IN item' = [item EXCEPT ![i] =
                     IF ok
                     THEN AfterDecimate(decimate_mesh(r, cfg.max_faces.val, new_faces))
                     ELSE DecimateFailure(r)]
    /\ UNCHANGED <<fetchVars, restVars, cfg, results, manifest, mainpc>>

\* Line 192: the exit codes of the Blender process, zero and a nonzero one.
ExitCodes == {0, 1}

\* Mutant of rig_mesh: a zero exit code is taken for success.
rig_mesh_TrustExit(returncode, output_exists) ==
    IF returncode # 0 THEN "RuntimeError" ELSE "path"

\* Lines 192-200: rig_mesh, after the Blender process has exited with
\* returncode and with the output file existing or not: what it raises, or
\* "path" when it returns the output path.
rig_mesh(returncode, output_exists) ==
    IF returncode # 0
    THEN "RuntimeError"
    ELSE IF ~output_exists
         THEN "FileNotFoundError"
         ELSE "path"

\* Lines 267-278: rig_mesh returns or raises.
RigDone(i, returncode, output_exists) ==
    /\ item[i].st = "rig"
    /\ LET ok == rig_mesh(returncode, output_exists) = "path"
           r == [item[i] EXCEPT !.fate.rig = IF ok THEN "ok" ELSE "fail",
                                !.rig_exit = returncode,
                                !.rig_output = output_exists]
       IN item' = [item EXCEPT ![i] = IF ok THEN RigSuccess(r) ELSE RigFailure(r)]
    /\ UNCHANGED <<fetchVars, restVars, cfg, results, manifest, mainpc>>

\* What main keeps of a CharacterResult.
Outcome(r) ==
    [name |-> r.name, image |-> r.image, mesh_path |-> r.mesh_path,
     rigged_path |-> r.rigged_path, mesh_timed |-> r.mesh_timed,
     rig_timed |-> r.rig_timed, error |-> r.error]

\* Mutant of Collect: a result is appended without its future being consumed.
Collect_Again(i) ==
    /\ mainpc = "run"
    /\ item[i].st = "returned"
    /\ results' = Append(results, Outcome(item[i]))
    /\ UNCHANGED <<fetchVars, restVars, cfg, item, manifest, mainpc>>

\* Lines 372-373 and 381: main appends the result of a finished process_single.
Collect(i) ==
    /\ mainpc = "run"
    /\ item[i].st = "returned"
    /\ results' = Append(results, Outcome(item[i]))
    /\ item' = [item EXCEPT ![i].st = "collected"]
    /\ UNCHANGED <<fetchVars, restVars, cfg, manifest, mainpc>>

\* Mutant of WriteManifest: the manifest is written while images are in progress.
WriteManifest_Early ==
    /\ mainpc = "run"
    /\ manifest' = [writes |-> manifest.writes + 1, val |-> results]
    /\ mainpc' = "done"
    /\ UNCHANGED <<fetchVars, restVars, cfg, item, results>>

\* Lines 383-417: every image is done; main writes manifest.json with the
\* entries of results, in the order of results (lines 399-416).
WriteManifest ==
    /\ mainpc = "run"
    /\ \A i \in Items : item[i].st = "collected"
    /\ manifest' = [writes |-> manifest.writes + 1, val |-> results]
    /\ mainpc' = "done"
    /\ UNCHANGED <<fetchVars, restVars, cfg, item, results>>

BatchNext ==
    \/ Validate
    \/ \E i \in Items : Start(i)
    \/ \E i \in Items, ok \in BOOLEAN : MeshDone(i, ok)
    \/ \E i \in Items, ok \in BOOLEAN, new_faces \in NewFaceCounts :
            DecimateDone(i, ok, new_faces)
    \/ \E i \in Items, returncode \in ExitCodes, output_exists \in BOOLEAN :
            RigDone(i, returncode, output_exists)
    \/ \E i \in Items : Collect(i)
    \/ WriteManifest

BatchSpec == BatchInit /\ [][BatchNext]_vars

\* Every stage call ends, by returning or by raising, and main waits for
\* every process_single it started (lines 360-381), so a run keeps taking steps
\* while one is possible.
BatchFairSpec == BatchSpec /\ WF_vars(BatchNext)

(***************************************************************************)
(* find_images on a directory tree (pipeline.py, lines 82-91).  A name is  *)
(* the sequence of its characters and a path the sequence of its names,    *)
(* so that the order of paths and the case of extensions are computed.     *)
(***************************************************************************)
\* The characters of the names below, with their code points.
ord ==
    [c \in {"-", ".", "/", "G", "N", "P", "a", "b", "d", "e", "g", "h", "j", "m",
            "n", "o", "p", "r", "s", "t", "u", "w", "x"} |->
        CASE c = "-" -> 45  [] c = "." -> 46  [] c = "/" -> 47
          [] c = "G" -> 71  [] c = "N" -> 78  [] c = "P" -> 80
          [] c = "a" -> 97  [] c = "b" -> 98  [] c = "d" -> 100
          [] c = "e" -> 101 [] c = "g" -> 103 [] c = "h" -> 104
          [] c = "j" -> 106 [] c = "m" -> 109 [] c = "n" -> 110
          [] c = "o" -> 111 [] c = "p" -> 112 [] c = "r" -> 114
          [] c = "s" -> 115 [] c = "t" -> 116 [] c = "u" -> 117
          [] c = "w" -> 119 [] c = "x" -> 120]

\* Line 40.
IMAGE_EXTENSIONS ==
    { <<".", "p", "n", "g">>, <<".", "j", "p", "g">>, <<".", "j", "p", "e", "g">>,
      <<".", "w", "e", "b", "p">>, <<".", "b", "m", "p">> }

\* Mutant of lower: the case is kept.
lower_Keep(s) == s

\* Line 89, str.lower(): an upper-case letter becomes the lower-case one.
lower(s) ==
    [k \in 1..Len(s) |->
        IF ord[s[k]] >= 65 /\ ord[s[k]] <= 90
        THEN CHOOSE c \in DOMAIN ord : ord[c] = ord[s[k]] + 32
        ELSE s[k]]

\* Line 89, PurePath.suffix: the name from its last dot on, when that dot is
\* neither the first nor the last character of the name; empty otherwise.
suffix(name) ==
    LET dots == {k \in 1..Len(name) : name[k] = "."}
    IN IF dots = {}
       THEN <<>>
       ELSE LET k == CHOOSE d \in dots : \A e \in dots : e <= d
            IN IF 1 < k /\ k < Len(name) THEN SubSeq(name, k, Len(name)) ELSE <<>>

\* The order of str: by code point, a proper prefix first.
RECURSIVE str_lt(_, _)
str_lt(s, t) ==
    IF t = <<>> THEN FALSE
    ELSE IF s = <<>> THEN TRUE
    ELSE IF Head(s) = Head(t) THEN str_lt(Tail(s), Tail(t))
    ELSE ord[Head(s)] < ord[Head(t)]

\* Line 88, the order of Path objects that sorted() uses: the paths are
\* compared name by name, each name as a str.
RECURSIVE path_lt(_, _)
path_lt(p, q) ==
    IF q = <<>> THEN FALSE
    ELSE IF p = <<>> THEN TRUE
    ELSE IF Head(p) = Head(q) THEN path_lt(Tail(p), Tail(q))
    ELSE str_lt(Head(p), Head(q))

\* Line 88, sorted(): the entries in ascending order of their paths.
RECURSIVE sorted(_)
sorted(entries) ==
    IF entries = {}
    THEN <<>>
    ELSE LET first == CHOOSE f \in entries :
                         \A g \in entries \ {f} : path_lt(f.path, g.path)
         IN <<first>> \o sorted(entries \ {first})

\* Line 89: the test of one entry.
is_image(f) == f.kind = "file" /\ lower(suffix(f.path[Len(f.path)])) \in IMAGE_EXTENSIONS

\* Lines 82-91: find_images for an input that is a file, or a directory with
\* the entries rglob("*") yields.
find_images_in(input_is_file, input_path, entries) ==
    IF input_is_file
    THEN <<input_path>>
    ELSE LET s == SelectSeq(sorted(entries), is_image)
         IN [k \in 1..Len(s) |-> s[k].path]

\* The input directory, a, and the files that may be below it, each with
\* whether it is an image file: a regular file of an allow-listed extension.
Root == << <<"a">> >>

FilesBelow ==
    { [rel |-> << <<"m">>, <<"b", ".", "p", "n", "g">> >>, image |-> TRUE],
      [rel |-> << <<"m", "-", "o">>, <<"a", ".", "p", "n", "g">> >>, image |-> TRUE],
      [rel |-> << <<"m", "-", "o">>, <<"t", ".", "j", "p", "g">> >>, image |-> TRUE],
      [rel |-> << <<"m">>, <<"u">>, <<"o", ".", "P", "N", "G">> >>, image |-> TRUE],
      [rel |-> << <<"m">>, <<"n", ".", "t", "x", "t">> >>, image |-> FALSE],
      [rel |-> << <<"m">>, <<"x", ".", "b", "m", "p">> >>, image |-> TRUE],
      [rel |-> << <<"d", ".", "p", "n", "g">>, <<"s", ".", "j", "p", "e", "g">> >>, image |-> TRUE],
      [rel |-> << <<"w", ".", "w", "e", "b", "p">> >>, image |-> TRUE] }

\* A single file given as the input, an image or not.
FileInputs ==
    { Root \o << <<"h", ".", "p", "n", "g">> >>, Root \o << <<"r", ".", "t", "x", "t">> >> }

\* Line 87, rglob("*"): the files below the directory and the directories
\* that hold them (d.png among them, a directory named like an image).
rglob(files) ==
    {[path |-> Root \o f.rel, kind |-> "file"] : f \in files}
       \cup UNION {{[path |-> Root \o SubSeq(f.rel, 1, k), kind |-> "dir"] :
                       k \in 1..(Len(f.rel) - 1)} : f \in files}

DiscoverInit ==
    /\ \/ \E files \in SUBSET FilesBelow :
             disc = [pc |-> "start", is_file |-> FALSE, input |-> Root,
                     files |-> files, found |-> <<>>]
       \/ \E f \in FileInputs :
             disc = [pc |-> "start", is_file |-> TRUE, input |-> f,
                     files |-> {}, found |-> <<>>]
    /\ api = [pc |-> "off"]
    /\ conc = [pc |-> "off"]
    \* the pipeline and the fetcher are not running
    /\ cfg = <<>>
    /\ item = <<>>
    /\ results = <<>>
    /\ manifest = <<>>
    /\ mainpc = "off"
    /\ remote = <<>>
    /\ dest = NoFile
    /\ partial = NoFile
    /\ pc = "off"
    /\ chunk_size_mb = 1
    /\ remote_size = NoneSize
    /\ current_size = 0
    /\ range_end = 0
    /\ bytes_this_request = 0
    /\ body = <<>>
    /\ result = "none"
    /\ calls = 0
    /\ nHead = 0
    /\ nGet = 0
    /\ nRename = 0
    /\ startDest = NoFile
    /\ startPartial = NoFile
    /\ written = <<>>
    /\ firstOffset = -1
    /\ err = "none"
    /\ errAt = -1
    /\ prevResult = "none"

\* Lines 82-91: find_images is called and returns.
FindImages ==
    /\ disc.pc = "start"
    /\ disc' = [disc EXCEPT !.pc = "done",
                            !.found = find_images_in(disc.is_file, disc.input,
                                                     rglob(disc.files))]
    /\ UNCHANGED <<fetchVars, batchVars, conc, api>>

DiscoverNext == FindImages

DiscoverSpec == DiscoverInit /\ [][DiscoverNext]_vars

(***************************************************************************)
(* call_api (02_generate_items.py, lines 184-207): a POST that is sent     *)
(* again after a 429 response and after a network error.                   *)
(***************************************************************************)
\* The largest max_retries of a call; 5 is the default of the parameter.
MaxRetries == 5

\* What one requests.post comes to: a response with its status code, or a
\* RequestException.
Statuses == {"200", "429", "500"}
Outcomes == Statuses \cup {"RequestException"}

ApiInit ==
    /\ \E max_retries \in 0..MaxRetries :
          api = [pc |-> "loop", max_retries |-> max_retries, i |-> 0,
                 last_response |-> "None", sent |-> <<>>, slept |-> <<>>,
                 result |-> "none"]
    /\ disc = [pc |-> "off"]
    /\ conc = [pc |-> "off"]
    \* the pipeline and the fetcher are not running
    /\ cfg = <<>>
    /\ item = <<>>
    /\ results = <<>>
    /\ manifest = <<>>
    /\ mainpc = "off"
    /\ remote = <<>>
    /\ dest = NoFile
    /\ partial = NoFile
    /\ pc = "off"
    /\ chunk_size_mb = 1
    /\ remote_size = NoneSize
    /\ current_size = 0
    /\ range_end = 0
    /\ bytes_this_request = 0
    /\ body = <<>>
    /\ result = "none"
    /\ calls = 0
    /\ nHead = 0
    /\ nGet = 0
    /\ nRename = 0
    /\ startDest = NoFile
    /\ startPartial = NoFile
    /\ written = <<>>
    /\ firstOffset = -1
    /\ err = "none"
    /\ errAt = -1
    /\ prevResult = "none"

\* Lines 191-201: a response came.  After a 429 the loop sleeps 2^i + 5
\* seconds and goes on; any other response is returned.
on_response(a, status) ==
    IF status = "429"
    THEN [a EXCEPT !.last_response = status,
                   !.slept = Append(@, 2^(a.i) + 5),
                   !.i = @ + 1]
    ELSE [a EXCEPT !.last_response = status, !.pc = "returned", !.result = status]

\* Mutant of on_exception: the first network error is raised.
on_exception_RaiseFirst(a) == [a EXCEPT !.pc = "raised", !.result = "RequestException"]

\* Lines 202-206: requests.post raised.  The error of the last attempt is
\* raised; after an earlier one the loop sleeps 2^i seconds and goes on.
on_exception(a) ==
    IF a.i = a.max_retries - 1
    THEN [a EXCEPT !.pc = "raised", !.result = "RequestException"]
    ELSE [a EXCEPT !.slept = Append(@, 2^(a.i)), !.i = @ + 1]

\* Lines 189-206: one turn of the loop: the request is sent and comes to
\* outcome.
Post(outcome) ==
    /\ api.pc = "loop"
    /\ api.i < api.max_retries
    /\ LET a == [api EXCEPT !.sent = Append(@, outcome)]
       IN api' = IF outcome \in Statuses THEN on_response(a, outcome) ELSE on_exception(a)
    /\ UNCHANGED <<fetchVars, batchVars, disc, conc>>

\* Line 207: the loop is over, and the last response is returned.
LoopExit ==
    /\ api.pc = "loop"
    /\ api.i >= api.max_retries
    /\ api' = [api EXCEPT !.pc = "returned", !.result = api.last_response]
    /\ UNCHANGED <<fetchVars, batchVars, disc, conc>>

ApiNext ==
    \/ \E outcome \in Outcomes : Post(outcome)
    \/ LoopExit

ApiSpec == ApiInit /\ [][ApiNext]_vars

\* requests.post is called with timeout=60 and time.sleep returns, so every
\* turn of the loop ends.
ApiFairSpec == ApiSpec /\ WF_vars(ApiNext)

(***************************************************************************)
(* Two calls of download_with_resume on one destination                    *)
(* (download_weights.py, lines 49-158), as two runs of the script at the   *)
(* same time make them, or one after the other as the loop of main does    *)
(* (lines 193-198).  The calls share remote, dest and partial; each has    *)
(* its own locals in conc.p.  A step is one access to the file system or   *)
(* to the network.                                                         *)
(***************************************************************************)
Procs == {1, 2}

\* The locals of a call that has not started; fd says where the file that the
\* call has open for append is now ("closed": none is open), seen is the state
\* of the partial file when the call last read its length, put the byte ranges
\* the call appended, each with the state the length was read in.
NotStarted ==
    [pc |-> "idle", remote_size |-> NoneSize, current_size |-> 0, range_end |-> 0,
     bytes_this_request |-> 0, body |-> <<>>, result |-> "none", fd |-> "closed",
     seen |-> 0, put |-> {}]

ConcInit ==
    /\ \E n \in 1..MaxRemoteLen : remote = RemoteOfLen(n)
    /\ dest \in {NoFile, File(remote)}
    /\ partial \in {NoFile} \cup {File(Prefix(remote, k)) : k \in 1..(Len(remote) - 1)}
    /\ \E serial \in BOOLEAN :
          conc = [serial |-> serial, ver |-> 0, p |-> [q \in Procs |-> NotStarted]]
    /\ chunk_size_mb = 1
    /\ disc = [pc |-> "off"]
    /\ api = [pc |-> "off"]
    \* the pipeline and the single fetcher are not running
    /\ cfg = <<>>
    /\ item = <<>>
    /\ results = <<>>
    /\ manifest = <<>>
    /\ mainpc = "off"
    /\ pc = "off"
    /\ remote_size = NoneSize
    /\ current_size = 0
    /\ range_end = 0
    /\ bytes_this_request = 0
    /\ body = <<>>
    /\ result = "none"
    /\ calls = 0
    /\ nHead = 0
    /\ nGet = 0
    /\ nRename = 0
    /\ startDest = NoFile
    /\ startPartial = NoFile
    /\ written = <<>>
    /\ firstOffset = -1
    /\ err = "none"
    /\ errAt = -1
    /\ prevResult = "none"

\* What a step of a call leaves alone besides the files and conc.
concRest == <<batchVars, disc, api, remote, pc, chunk_size_mb, remote_size, current_size,
              range_end, bytes_this_request, body, result, fetchHistory>>

\* Mutant of MayEnter: a call starts while another one is running.
MayEnter_Any(p) == TRUE

\* download_weights.py, lines 193-198: main makes its calls one after the
\* other; two runs of the script make theirs at any time.
MayEnter(p) ==
    conc.serial => \A q \in Procs \ {p} : conc.p[q].pc \in {"idle", "returned", "raised"}

\* Where an open file is after partial was renamed to dest: the file that was
\* partial is dest now, and the file that was dest has no name any more.
AfterRename(fd) ==
    CASE fd = "partial" -> "dest"
      [] fd = "dest" -> "gone"
      [] OTHER -> fd

\* Where an open file is after dest was unlinked.
AfterUnlink(fd) == IF fd = "dest" THEN "gone" ELSE fd

\* Lines 49-55: the call starts.
PEnter(p) ==
    /\ conc.p[p].pc = "idle"
    /\ MayEnter(p)
    /\ conc' = [conc EXCEPT !.p[p].pc = "head"]
    /\ UNCHANGED <<concRest, dest, partial>>

\* Lines 37-46 and 58: get_remote_size returns the size, returns None, or
\* lets an exception out.
PHead(p, answer) ==
    /\ conc.p[p].pc = "head"
    /\ conc' = [conc EXCEPT !.p[p] =
                  CASE answer = "size" -> [@ EXCEPT !.remote_size = Len(remote),
                                                    !.pc = "check_dest"]
                    [] answer = "none" -> [@ EXCEPT !.remote_size = NoneSize,
                                                    !.pc = "check_dest"]
                    [] OTHER -> [@ EXCEPT !.pc = "raised", !.result = "raised"]]
    /\ UNCHANGED <<concRest, dest, partial>>

\* Lines 63-68: a destination of the expected size ends the call; any other
\* destination is unlinked.
PCheckDest(p) ==
    /\ conc.p[p].pc = "check_dest"
    /\ IF dest.exists
       THEN IF Truthy(conc.p[p].remote_size) /\ Len(dest.data) = conc.p[p].remote_size
            THEN /\ conc' = [conc EXCEPT !.p[p].pc = "returned", !.p[p].result = "True"]
                 /\ dest' = dest
            ELSE /\ conc' = [conc EXCEPT !.p =
                               [q \in Procs |->
                                  IF q = p
                                  THEN [conc.p[q] EXCEPT !.pc = "resume"]
                                  ELSE [conc.p[q] EXCEPT !.fd = AfterUnlink(@)]]]
                 /\ dest' = NoFile
       ELSE /\ conc' = [conc EXCEPT !.p[p].pc = "resume"]
            /\ dest' = dest
    /\ UNCHANGED <<concRest, partial>>

\* Lines 71-77: a partial file that has reached the expected size is renamed
\* to the destination.
PResume(p) ==
    /\ conc.p[p].pc = "resume"
    /\ LET existing_size == SizeOrZero(partial)
       IN IF existing_size > 0 /\ Truthy(conc.p[p].remote_size)
                               /\ existing_size >= conc.p[p].remote_size
          THEN /\ dest' = partial
               /\ partial' = NoFile
               /\ conc' = [conc EXCEPT !.ver = @ + 1, !.p =
                             [q \in Procs |->
                                IF q = p
                                THEN [conc.p[q] EXCEPT !.pc = "returned", !.result = "True"]
                                ELSE [conc.p[q] EXCEPT !.fd = AfterRename(@)]]]
          ELSE /\ conc' = [conc EXCEPT !.p[p].pc = "loop"]
               /\ UNCHANGED <<dest, partial>>
    /\ UNCHANGED concRest

\* Lines 89-100: the length of the partial file is read, and the loop ends or
\* the next range is built.
PLoopTop(p) ==
    /\ conc.p[p].pc = "loop"
    /\ LET size == ResumeOffset(partial)
       IN conc' = [conc EXCEPT !.p[p] =
                     IF Truthy(@.remote_size) /\ size >= @.remote_size
                     THEN [@ EXCEPT !.current_size = size, !.seen = conc.ver,
                                    !.pc = "verify"]
                     ELSE [@ EXCEPT !.current_size = size, !.seen = conc.ver,
                                    !.range_end = RangeEnd(size),
                                    !.bytes_this_request = 0,
                                    !.pc = "urlopen"]]
    /\ UNCHANGED <<concRest, dest, partial>>

\* Lines 107-108: the server answers 206 and the partial file is opened for
\* append; or it answers 416, the range starting at or past the end of the
\* file; or the request fails.
PUrlopen(p, answered) ==
    /\ conc.p[p].pc = "urlopen"
    /\ IF answered /\ conc.p[p].current_size < Len(remote)
       THEN /\ conc' = [conc EXCEPT !.p[p] =
                          [@ EXCEPT !.body = RangeBody(conc.p[p].current_size,
                                                        conc.p[p].range_end),
                                    !.fd = "partial", !.pc = "stream"]]
            /\ partial' = OpenForAppend(partial)
       ELSE /\ conc' = [conc EXCEPT !.p[p].pc = "except"]
            /\ partial' = partial
    /\ UNCHANGED <<concRest, dest>>

\* Lines 110-115: one read increment is appended to the file the call has
\* open, wherever that file is by now.
PReadPiece(p) ==
    /\ conc.p[p].pc = "stream"
    /\ conc.p[p].body # <<>>
    /\ LET me == conc.p[p]
           n == Min(read_chunk, Len(me.body))
           piece == SubSeq(me.body, 1, n)
           first == me.current_size + me.bytes_this_request
       IN /\ partial' = IF me.fd = "partial" THEN File(partial.data \o piece) ELSE partial
          /\ dest' = IF me.fd = "dest" THEN File(dest.data \o piece) ELSE dest
          /\ conc' = [conc EXCEPT
                        !.ver = IF me.fd = "partial" THEN @ + 1 ELSE @,
                        !.p[p] = [@ EXCEPT !.bytes_this_request = @ + n,
                                           !.body = SubSeq(me.body, n + 1, Len(me.body)),
                                           !.put = @ \cup {<<me.seen, first, n>>}]]
    /\ UNCHANGED concRest

\* Lines 110-112 and 140-147: the body ends, is cut short without an error, or
\* fails with one; the file is closed.
PReadOver(p, how) ==
    /\ conc.p[p].pc = "stream"
    /\ how = "end" <=> conc.p[p].body = <<>>
    /\ conc' = [conc EXCEPT !.p[p] =
                  [@ EXCEPT !.body = <<>>, !.fd = "closed",
                            !.pc = IF how = "error" THEN "except" ELSE "after_body"]]
    /\ UNCHANGED <<concRest, dest, partial>>

\* Lines 130-138: an empty or a short response ends the loop.
PAfterBody(p) ==
    /\ conc.p[p].pc = "after_body"
    /\ conc' = [conc EXCEPT !.p[p].pc =
                  IF conc.p[p].bytes_this_request = 0
                        \/ conc.p[p].bytes_this_request < chunk_bytes
                  THEN "verify"
                  ELSE "loop"]
    /\ UNCHANGED <<concRest, dest, partial>>

\* Lines 140-147: the handler sleeps and the loop goes on.
PExcept(p) ==
    /\ conc.p[p].pc = "except"
    /\ conc' = [conc EXCEPT !.p[p].pc = "loop"]
    /\ UNCHANGED <<concRest, dest, partial>>

\* Lines 149-158: the final size is compared with the expected one, and the
\* partial file is renamed to the destination; the rename raises when the
\* partial file is not there.
PVerify(p) ==
    /\ conc.p[p].pc = "verify"
    /\ LET final_size == SizeOrZero(partial)
       IN IF Truthy(conc.p[p].remote_size) /\ final_size # conc.p[p].remote_size
          THEN /\ conc' = [conc EXCEPT !.p[p].pc = "returned", !.p[p].result = "False"]
               /\ UNCHANGED <<dest, partial>>
          ELSE IF partial.exists
               THEN /\ dest' = partial
                    /\ partial' = NoFile
                    /\ conc' = [conc EXCEPT !.ver = @ + 1, !.p =
                                  [q \in Procs |->
                                     IF q = p
                                     THEN [conc.p[q] EXCEPT !.pc = "returned",
                                                            !.result = "True"]
                                     ELSE [conc.p[q] EXCEPT !.fd = AfterRename(@)]]]
               ELSE /\ conc' = [conc EXCEPT !.p[p].pc = "raised", !.p[p].result = "raised"]
                    /\ UNCHANGED <<dest, partial>>
    /\ UNCHANGED concRest

ConcNext ==
    \/ \E p \in Procs : PEnter(p)
    \/ \E p \in Procs, answer \in {"size", "none", "raise"} : PHead(p, answer)
    \/ \E p \in Procs : PCheckDest(p)
    \/ \E p \in Procs : PResume(p)
    \/ \E p \in Procs : PLoopTop(p)
    \/ \E p \in Procs, answered \in BOOLEAN : PUrlopen(p, answered)
    \/ \E p \in Procs : PReadPiece(p)
    \/ \E p \in Procs, how \in {"end", "cut", "error"} : PReadOver(p, how)
    \/ \E p \in Procs : PAfterBody(p)
    \/ \E p \in Procs : PExcept(p)
    \/ \E p \in Procs : PVerify(p)

ConcSpec == ConcInit /\ [][ConcNext]_vars

(***************************************************************************)
(* Properties of the fetcher.                                              *)
(***************************************************************************)
Complete(f) == f.exists /\ f.data = remote
InCall == pc \notin {"idle", "returned", "raised"}

\* C1: a call on a destination that the previous call completed sends no
\* network request at all (no HEAD probe, no ranged GET) and returns success.
C1_SecondCallNoNetwork ==
    (prevResult = "True" /\ Complete(startDest))
        => /\ nHead = 0
           /\ nGet = 0
           /\ pc \in {"returned", "raised"} => result = "True"

\* C2: a call that starts with a partial file holding the first L bytes of the
\* remote file, L below the expected size, and returns success leaves a
\* destination equal to the remote file, which is also what a successful call
\* that starts with neither file leaves.
C2_ResumeByteIdentical ==
    (pc = "returned" /\ result = "True" /\ Truthy(remote_size))
        => /\ (/\ startPartial.exists
               /\ IsPrefix(startPartial.data, remote)
               /\ Len(startPartial.data) < remote_size) => dest = File(remote)
           /\ (~startPartial.exists /\ ~startDest.exists) => dest = File(remote)

C2_Witness ==
    /\ pc = "returned"
    /\ result = "True"
    /\ Truthy(remote_size)
    /\ startPartial = File(<<1>>)
    /\ Len(remote) >= 3
    /\ err = "network"
    /\ nGet >= 2
    /\ dest = File(remote)

\* C3: during a call the partial file is only appended to (or renamed, whole,
\* to the destination), and the ranged GET that follows an error starts at the
\* failed request's offset plus the bytes that request wrote.
C3_MonotonicProgress ==
    [][InCall =>
         /\ \/ partial'.exists /\ IsPrefix(partial.data, partial'.data)
            \/ partial.exists /\ ~partial'.exists /\ dest' = partial
            \/ ~partial.exists /\ ~partial'.exists
         /\ (pc = "loop" /\ errAt # -1 /\ pc' = "urlopen") => current_size' = errAt
      ]_vars

C3_Witness ==
    /\ pc = "loop"
    /\ err = "network"
    /\ errAt = current_size + bytes_this_request
    /\ current_size > 0
    /\ bytes_this_request > 0
    /\ bytes_this_request < chunk_bytes
    /\ partial.data = startPartial.data \o written
    /\ Len(partial.data) = errAt

\* C4: a call that returns success with a known expected size leaves a
\* destination of exactly that size.
C4_FinalSizeVerified ==
    (pc = "returned" /\ result = "True" /\ Truthy(remote_size))
        => dest.exists /\ Len(dest.data) = remote_size

\* C5: a call that ends on a size mismatch returns failure, leaves the partial
\* file with every byte received and no destination; the next call's first
\* ranged GET starts at the length of that partial file, whose bytes are kept.
C5_MismatchIsCheckpoint ==
    /\ (pc = "returned" /\ result = "False")
         => /\ Truthy(remote_size)
            /\ partial.exists
            /\ partial.data = startPartial.data \o written
            /\ Len(partial.data) # remote_size
            /\ ~dest.exists
    /\ (prevResult = "False" /\ pc # "probe")
         => /\ startPartial.exists
            /\ nGet >= 1 => firstOffset = Len(startPartial.data)
            /\ IF partial.exists
               THEN IsPrefix(startPartial.data, partial.data)
               ELSE dest.exists /\ IsPrefix(startPartial.data, dest.data)

C5_Witness ==
    /\ prevResult = "False"
    /\ pc = "returned"
    /\ result = "True"
    /\ firstOffset > 0
    /\ firstOffset = Len(startPartial.data)
    /\ dest = File(remote)

\* C6: a destination that holds the complete remote file stays in place, with
\* its content, whatever a fetch does.
C6_NeverTruncatesDest ==
    [][Complete(dest) => Complete(dest')]_vars

\* C7: an error of a ranged GET leads to the handler and nowhere else; the
\* handler changes no file and continues with the loop, which sends the next
\* ranged GET for the range recomputed from the partial file; a call returns
\* failure only from the final size check.
C7_GetErrorsNeverFatal ==
    [][/\ pc \in {"urlopen", "stream"} => pc' \in {"stream", "after_body", "except"}
       /\ pc = "except" => pc' = "loop" /\ partial' = partial /\ dest' = dest
       /\ (pc = "loop" /\ errAt # -1)
            => /\ pc' = "urlopen"
               /\ current_size' = SizeOrZero(partial)
               /\ range_end' = current_size' + chunk_bytes - 1
       /\ (result' = "False" /\ result # "False")
            => pc = "verify" /\ Truthy(remote_size) /\ SizeOrZero(partial) # remote_size
       /\ (result' = "raised" /\ result # "raised") => pc \notin {"urlopen", "stream", "except"}
      ]_vars

C7_Witness ==
    /\ pc = "returned"
    /\ result = "True"
    /\ err = "network"
    /\ nGet = MaxGets
    /\ dest = File(remote)

\* C8: with the expected size unknown and the partial file already holding the
\* whole remote file, the ranged request that starts at the end of the file
\* does not lead to the retry handler.
C8_EndOfFileStopsLoop ==
    ~(/\ pc = "except"
      /\ err = "HTTPError416"
      /\ ~Truthy(remote_size)
      /\ Complete(partial))


(***************************************************************************)
(* Properties of the pipeline.                                             *)
(***************************************************************************)
\* The items whose mesh stage failed, and those with a later stage that failed.
MeshFailed == {i \in Items : item[i].fate.mesh = "fail"}
LaterFailed == {i \in Items : item[i].fate.decimate = "fail" \/ item[i].fate.rig = "fail"}

Report == manifest.val
WithError == {k \in 1..Len(Report) : Report[k].error # ""}

\* C9: when exactly one item's mesh stage failed and no other stage failed,
\* the manifest holds one outcome per item, exactly one of them with an error,
\* that of the failed item, and every other outcome with a mesh path, no error
\* and a rigged path exactly when its own image passes the rig gate; this for
\* every worker count.
C9_PartialFailureIsolation ==
    (mainpc = "done" /\ Cardinality(MeshFailed) = 1 /\ LaterFailed = {})
        => /\ Len(Report) = Len(images)
           /\ \A i \in Items : \E k \in 1..Len(Report) : Report[k].image = images[i]
           /\ Cardinality(WithError) = 1
           /\ \A k \in 1..Len(Report) :
                IF \E i \in MeshFailed : Report[k].image = images[i]
                THEN Report[k].error # "" /\ Report[k].mesh_path = <<>>
                ELSE /\ Report[k].error = ""
                     /\ Report[k].mesh_path # <<>>
                     /\ Report[k].rigged_path # <<>> <=> RigWanted(Report[k].image)

C9_Witness ==
    /\ mainpc = "done"
    /\ cfg.workers > 1
    /\ MeshFailed = {2}
    /\ LaterFailed = {}
    /\ Len(Report) = 3
    /\ \E k \in 1..3 : Report[k].rigged_path # <<>>

\* C10: once a stage of an item has failed, process_single has returned and no
\* later stage was invoked: after a mesh failure generate_mesh is the only
\* stage invoked, after a decimation failure rig_mesh was not invoked.
C10_ShortCircuit ==
    \A i \in Items :
       /\ (\E stage \in {"mesh", "decimate", "rig"} : item[i].fate[stage] = "fail")
            => item[i].st \in {"returned", "collected"}
       /\ item[i].fate.mesh = "fail" => item[i].invoked = <<"mesh">>
       /\ item[i].fate.decimate = "fail" => item[i].invoked = <<"mesh", "decimate">>

C10_Witness ==
    /\ Len(item) = 3
    /\ item[2].fate.mesh = "fail"
    /\ ~cfg.max_faces.none
    /\ item[3].fate.decimate = "fail"
    /\ RigWanted(images[2])
    /\ RigWanted(images[3])
    /\ item[2].st = "collected"
    /\ item[3].st = "collected"

\* The stages that have failed for item i.
FailedStages(i) == {stage \in {"mesh", "decimate", "rig"} : item[i].fate[stage] = "fail"}

\* What process_single records for a failure of each stage.
ErrorOf(stage) ==
    CASE stage = "mesh" -> "mesh generation"
      [] stage = "decimate" -> "decimation"
      [] stage = "rig" -> "rigging"

\* C11: a failure raised by the mesh, decimation or rig stage never leaves
\* process_single: the item has returned with that failure in its error field;
\* and a failed item stops neither the other items nor the manifest: until the
\* manifest is written main always has a step to take, and the manifest
\* written holds the outcome of every item, failed or not.
C11_NoFaultEscapes ==
    /\ \A i \in Items :
          /\ item[i].st \in {"pending", "mesh", "decimate", "rig", "returned", "collected"}
          /\ \A stage \in FailedStages(i) :
                /\ item[i].st \in {"returned", "collected"}
                /\ item[i].error = ErrorOf(stage)
    /\ mainpc = "run" => ENABLED BatchNext
    /\ mainpc = "done" =>
          \A i \in Items : \E k \in 1..Len(Report) : Report[k] = Outcome(item[i])

C11_Witness ==
    /\ mainpc = "done"
    /\ Len(item) = 3
    /\ \E i, j, k \in Items :
          /\ item[i].fate.mesh = "fail"
          /\ item[j].fate.decimate = "fail"
          /\ item[k].fate.rig = "fail"
    /\ Len(Report) = 3
    /\ \A k \in 1..3 : Report[k].error # ""

\* The item has come to the rig gate: its mesh stage succeeded, and so did its
\* decimation when a face ceiling is set.
PastGate(i) ==
    /\ item[i].fate.mesh = "ok"
    /\ item[i].fate.decimate = (IF cfg.max_faces.none THEN "-" ELSE "ok")

\* The three conditions of the rig gate, the third one on the directories of
\* the image's path.
GateOpen(img) ==
    /\ ~cfg.skip_rig
    /\ cfg.blender_bin
    /\ \/ cfg.rig_dirs.none
       \/ \E k \in 1..Len(cfg.rig_dirs.val) :
             \E c \in 1..Len(img.dir) : img.dir[c] = cfg.rig_dirs.val[k]

RigInvoked(i) == \E k \in 1..Len(item[i].invoked) : item[i].invoked[k] = "rig"

ItemOf(k) == CHOOSE i \in Items : item[i].image = results[k].image

\* C13: an outcome of an item that came to the rig gate and did not pass it
\* has an empty rigged path, an empty error and a mesh path; an outcome of an
\* item whose rig stage ran and failed has an empty rigged path and a
\* non-empty error.
C13_SkippedRigIsNotFailure ==
    \A k \in 1..Len(results) :
       /\ (PastGate(ItemOf(k)) /\ ~GateOpen(results[k].image))
            => /\ results[k].rigged_path = <<>>
               /\ results[k].error = ""
               /\ results[k].mesh_path # <<>>
       /\ item[ItemOf(k)].fate.rig = "fail"
            => /\ results[k].rigged_path = <<>>
               /\ results[k].error # ""

C13_Witness ==
    /\ Len(results) = 3
    /\ \E k \in 1..3 : PastGate(ItemOf(k)) /\ ~GateOpen(results[k].image)
    /\ \E k \in 1..3 : item[ItemOf(k)].fate.rig = "fail"

\* C14: at most one rig stage is in progress at any time, for every worker
\* count and every interleaving.
C14_RigNeverConcurrent ==
    Cardinality({i \in Items : item[i].st = "rig"}) <= 1

\* The item names of the model in ascending order, and the place of a name.
NameOrder == <<"bat", "hero", "orc", "sword">>
NameRank(name) == CHOOSE k \in 1..Len(NameOrder) : NameOrder[k] = name

\* C15: the 'characters' array of the manifest written is in ascending order
\* of item name, for every worker count and completion order.
C15_ManifestSortedByName ==
    mainpc = "done" =>
        \A k \in 1..(Len(Report) - 1) :
            NameRank(Report[k].name) <= NameRank(Report[k + 1].name)

\* C16: the manifest is written at most once, and only when every discovered
\* item has its final outcome in results, of which it is a copy; and once
\* processing has started the manifest does get written, whichever stages fail.
C16_ManifestOnceAtEnd ==
    /\ [][manifest' # manifest =>
              /\ manifest.writes = 0
              /\ manifest'.writes = 1
              /\ Len(item) = Len(images)
              /\ \A i \in Items : item[i].st = "collected"
              /\ Len(results) = Len(images)
              /\ manifest'.val = results]_vars
    /\ [](manifest.writes = 1 <=> mainpc = "done")
    /\ (mainpc = "run") ~> (manifest.writes = 1)

C16_Witness ==
    /\ manifest.writes = 1
    /\ cfg.workers > 1
    /\ Len(manifest.val) = 3
    /\ \A i \in Items : item[i].fate.mesh = "fail"
    /\ \A k \in 1..3 : manifest.val[k].error # ""

\* C17: results never holds two outcomes of one item nor an outcome of anything
\* but a discovered item, it holds the outcome of exactly the items collected,
\* and the manifest written holds exactly one outcome per discovered item; for
\* every worker count and every combination of failures.
C17_OneOutcomePerItem ==
    /\ \A k1, k2 \in 1..Len(results) :
          results[k1].image = results[k2].image => k1 = k2
    /\ \A k \in 1..Len(results) : \E i \in 1..Len(images) : results[k].image = images[i]
    /\ \A i \in Items :
          item[i].st = "collected" <=> \E k \in 1..Len(results) : results[k].image = images[i]
    /\ mainpc = "done" =>
          /\ Len(Report) = Len(images)
          /\ \A i \in 1..Len(images) :
                Cardinality({k \in 1..Len(Report) : Report[k].image = images[i]}) = 1

C17_Witness ==
    /\ mainpc = "done"
    /\ cfg.workers > 1
    /\ Len(Report) = 3
    /\ Report[1].image = images[2]
    /\ Report[1].error # ""
    /\ Report[2].error = ""
    /\ Report[3].error # ""

\* A configuration or discovery failure: the mesh engine is not installed, or
\* the input path does not exist or holds no image.
BadSetup == ~cfg.triposr \/ cfg.input \in {"missing", "empty"}

C19_SequentialInOrder ==
    cfg.workers <= 1 =>
        /\ Cardinality({i \in Items : item[i].st \in {"mesh", "decimate", "rig", "returned"}}) <= 1
        /\ \A i, j \in Items :
              (i < j /\ item[j].st # "pending") => item[i].st = "collected"
        /\ \A k \in 1..Len(results) : results[k].image = images[k]

C19_Witness ==
    /\ cfg.workers <= 1
    /\ mainpc = "done"
    /\ Len(Report) = 3
    /\ Report[2].error # ""

\* C20: the output directory of an item depends only on the input root, the
\* image path and the output root: for a directory input, the image at a/b/c.png
\* below it gets <output root>/a/b/c, for every output root, and for a
\* single-file input the image gets <output root>/<stem>; the mesh is written
\* below that directory.
C20_OutputPathDeterministic ==
    \A i \in Items :
       /\ cfg.input = "dir" =>
             item[i].char_output = cfg.output_dir \o tree[i].dir \o <<tree[i].stem>>
       /\ (cfg.input = "dir" /\ i = 3) =>
             item[i].char_output = cfg.output_dir \o <<"monsters", "undead", "orc">>
       /\ cfg.input = "file" => item[i].char_output = cfg.output_dir \o <<"hero">>
       /\ item[i].mesh_path # <<>> =>
             item[i].mesh_path = item[i].char_output \o <<"0", "mesh.obj">>

C20_Witness ==
    /\ cfg.input = "dir"
    /\ cfg.output_dir = <<"tmp", "out">>
    /\ Len(item) = 3
    /\ item[3].mesh_path = <<"tmp", "out", "monsters", "undead", "orc", "0", "mesh.obj">>

\* C21: no two distinct discovered items are given the same output directory
\* (two entries of one directory always differ in their file names).
C21_ExclusiveOutputDirs ==
    \A i, j \in Items :
        (i # j /\ item[i].image # item[j].image)
            => item[i].char_output # item[j].char_output

\* C22: when decimate_mesh returns for a mesh whose face count is at or below
\* the ceiling, the two face counts it reports are equal (to that count), the
\* simplification was not invoked, the mesh file was written once only, by
\* generate_mesh, and no decimation error is recorded.
C22_DecimationNoOp ==
    \A i \in Items :
        (/\ ~cfg.max_faces.none
         /\ item[i].fate.decimate = "ok"
         /\ FacesOf(item[i].name) <= cfg.max_faces.val)
            => /\ item[i].decimated = <<FacesOf(item[i].name), FacesOf(item[i].name)>>
               /\ item[i].simplified = 0
               /\ item[i].mesh_writes = 1
               /\ item[i].faces = FacesOf(item[i].name)
               /\ item[i].error # "decimation"

C22_Witness ==
    /\ Len(item) = 3
    /\ item[2].name = "bat"
    /\ item[2].fate.decimate = "ok"
    /\ item[2].decimated = <<2, 2>>
    /\ item[3].name = "orc"
    /\ item[3].fate.decimate = "ok"
    /\ item[3].decimated = <<3, 1>>
    /\ item[3].mesh_writes = 2

(***************************************************************************)
(* Further properties of the fetcher.                                      *)
(***************************************************************************)
\* C23: a ranged GET about to be sent asks for the bytes from offset to
\* offset + chunk size - 1, where offset is the length of the partial file on
\* disk (0 without a partial file); and while its body is streamed the partial
\* file holds exactly the offset plus the bytes received.
C23_RangeStartsAtPartialLength ==
    /\ pc = "urlopen" =>
          /\ current_size = (IF partial.exists THEN Len(partial.data) ELSE 0)
          /\ range_end = current_size + chunk_size_mb * MiB - 1
    /\ pc \in {"stream", "after_body"} =>
          /\ partial.exists
          /\ Len(partial.data) = current_size + bytes_this_request
          /\ bytes_this_request <= chunk_size_mb * MiB

C23_Witness ==
    /\ pc = "urlopen"
    /\ nGet = 2
    /\ err = "none"
    /\ remote_size = 2 * MiB
    /\ chunk_size_mb = 1
    /\ current_size = MiB
    /\ range_end = 2 * MiB - 1
    /\ partial.exists
    /\ Len(partial.data) = current_size

\* C24: after a ranged GET that ended without an error, a response of fewer
\* bytes than the chunk size (none included) leads to the final verification,
\* from which the call only returns; a response of a full chunk leads back to
\* the head of the loop, where another ranged GET is built exactly when the
\* expected size is unknown or the partial file is still shorter than it.
C24_LoopExitRule ==
    [][/\ (pc = "after_body" /\ bytes_this_request < chunk_size_mb * MiB)
            => pc' = "verify"
       /\ (pc = "after_body" /\ bytes_this_request >= chunk_size_mb * MiB)
            => pc' = "loop"
       /\ pc = "verify" => pc' \in {"returned", "raised"}
       /\ (pc = "loop" /\ nGet > 0 /\ errAt = -1)
            => /\ bytes_this_request = chunk_size_mb * MiB
               /\ pc' \in {"urlopen", "verify"}
               /\ pc' = "urlopen" <=>
                     \/ ~Truthy(remote_size)
                     \/ SizeOrZero(partial) < remote_size]_vars

C24_Witness ==
    /\ pc = "verify"
    /\ Truthy(remote_size)
    /\ err = "none"
    /\ nGet = 2
    /\ bytes_this_request > 0
    /\ bytes_this_request < chunk_size_mb * MiB
    /\ partial = File(remote)

\* The call started with a non-empty partial file at least as long as the
\* expected size, which is known; with a destination of the expected size.
Promotable ==
    /\ Truthy(remote_size)
    /\ startPartial.exists
    /\ Len(startPartial.data) > 0
    /\ Len(startPartial.data) >= remote_size

DestComplete ==
    /\ Truthy(remote_size)
    /\ startDest.exists
    /\ Len(startDest.data) = remote_size

\* What C25 says of a call that promotes its partial file: no ranged GET, and
\* it returns success with the partial file renamed to the destination.
Promoted ==
    /\ nGet = 0
    /\ pc \in {"check_dest", "resume", "returned"}
    /\ pc = "returned" =>
          /\ result = "True"
          /\ nRename = 1
          /\ dest = startPartial
          /\ ~partial.exists

\* C25 as stated: a call that starts with a non-empty partial file of at least
\* the known expected size renames it to the destination, sends no ranged GET
\* and returns success; any other call sends its first ranged GET at the
\* length of the partial file it started with.
C25_PromotionAsStated ==
    /\ Promotable => Promoted
    /\ (~Promotable /\ firstOffset # -1) => firstOffset = SizeOrZero(startPartial)

\* C25, amended: the promotion takes place unless the destination already
\* exists with the expected size; in that case the call returns success
\* without a ranged GET and without a rename.
C25_Promotion ==
    /\ (Promotable /\ ~DestComplete) => Promoted
    /\ (Promotable /\ DestComplete) =>
          /\ nGet = 0
          /\ nRename = 0
          /\ dest = startDest
          /\ pc \in {"check_dest", "returned"}
          /\ pc = "returned" => result = "True"
    /\ (~Promotable /\ firstOffset # -1) => firstOffset = SizeOrZero(startPartial)

C25_Witness ==
    /\ Promotable
    /\ ~DestComplete
    /\ startDest.exists
    /\ Len(startPartial.data) > remote_size
    /\ pc = "returned"
    /\ result = "True"
    /\ nRename = 1
    /\ dest = startPartial

\* The call started with a destination whose size is not the known expected one.
StaleDest ==
    /\ Truthy(remote_size)
    /\ startDest.exists
    /\ Len(startDest.data) # remote_size

C27_UnknownSizeNotFatal ==
    (nHead > 0 /\ ~Truthy(remote_size)) =>
        /\ pc # "raised"
        /\ result \notin {"False", "raised"}
        /\ pc \in {"verify", "returned"} => nGet > 0
        /\ pc = "returned" =>
              /\ result = "True"
              /\ nRename = 1
              /\ ~partial.exists

\* C28: a step changes the destination only by deleting it in the destination
\* test or by renaming the partial file to it; the partial file changes only
\* by being created empty, by bytes appended to it or by that rename; every
\* byte received is appended to the partial file and to nothing else; and a
\* call renames at most once.
C28_SideEffectsConfined ==
    /\ [][/\ dest' # dest =>
                \/ (pc = "check_dest" /\ dest' = NoFile)
                \/ (/\ partial.exists
                    /\ dest' = partial
                    /\ partial' = NoFile
                    /\ nRename' = nRename + 1)
          /\ partial' # partial =>
                \/ (partial.exists /\ partial' = NoFile /\ dest' = partial)
                \/ (~partial.exists /\ partial' = File(<<>>) /\ dest' = dest)
                \/ (/\ partial.exists
                    /\ partial'.exists
                    /\ IsPrefix(partial.data, partial'.data)
                    /\ dest' = dest)
          /\ (calls' = calls /\ written' # written) =>
                /\ dest' = dest
                /\ IsPrefix(written, written')
                /\ partial'.data =
                      partial.data \o SubSeq(written', Len(written) + 1, Len(written'))
          /\ (calls' = calls /\ nRename' # nRename) => dest' = partial]_vars
    /\ [](nRename <= 1)

C28_Witness ==
    /\ pc = "returned"
    /\ result = "True"
    /\ ~startDest.exists
    /\ ~startPartial.exists
    /\ written = remote
    /\ Len(remote) > chunk_size_mb * MiB
    /\ nRename = 1
    /\ dest = File(remote)
    /\ ~partial.exists

\* C29: after a call that returned success no partial file remains, whatever
\* destination and partial file the call started with.
C29_NoPartialAfterSuccess ==
    (pc = "returned" /\ result = "True") => ~partial.exists

\* C30: with the expected size known, a call always comes to return (success
\* or failure) when requests that are retried are answered at some time; and
\* the retry has no limit: the handler of a failed request always goes back to
\* the head of the loop, and the loop is left only after a request that ended
\* without an error, so that a call whose requests all fail does not return.
C30_FetchTerminates ==
    /\ (InCall /\ Truthy(remote_size)) ~> (pc = "returned")
    /\ [][/\ pc = "except" => (pc' = "loop" /\ result' = result)
          /\ (nGet > 0 /\ pc # "verify" /\ pc' = "verify") => errAt = -1
          /\ (nGet > 0 /\ pc' \in {"returned", "raised"} /\ pc # pc') => pc = "verify"]_vars

C30_Witness ==
    /\ pc = "returned"
    /\ Truthy(remote_size)
    /\ nGet = MaxGets
    /\ err = "network"
    /\ result = "True"
    /\ dest = File(remote)
    /\ Len(remote) = MaxRemoteLen

(***************************************************************************)
(* Further properties of the pipeline.                                     *)
(***************************************************************************)
\* C32: the stages invoked for an item are, in this order, generate_mesh,
\* then decimate_mesh, then rig_mesh, each at most once; decimate_mesh only
\* after generate_mesh succeeded and with a face ceiling set; rig_mesh only
\* after generate_mesh succeeded and, with a face ceiling set, decimate_mesh
\* succeeded; and a stage that was invoked is not taken back.
C32_StageOrder ==
    /\ [](\A i \in Items :
          /\ item[i].invoked \in {<<>>, <<"mesh">>, <<"mesh", "decimate">>,
                                  <<"mesh", "rig">>, <<"mesh", "decimate", "rig">>}
          /\ item[i].st \notin {"pending"} => item[i].invoked # <<>>
          /\ (\E k \in 1..Len(item[i].invoked) : item[i].invoked[k] = "decimate")
                => item[i].fate.mesh = "ok" /\ ~cfg.max_faces.none
          /\ RigInvoked(i)
                => /\ item[i].fate.mesh = "ok"
                   /\ ~cfg.max_faces.none => item[i].fate.decimate = "ok")
    /\ [][\A i \in Items :
             i \in DOMAIN item' => IsPrefix(item[i].invoked, item'[i].invoked)]_vars

C32_Witness ==
    /\ Len(item) = 3
    /\ item[1].invoked = <<"mesh", "decimate", "rig">>
    /\ item[1].st = "collected"
    /\ item[2].invoked = <<"mesh", "decimate">>
    /\ item[2].st = "collected"
    /\ item[3].invoked = <<"mesh">>
    /\ item[3].st = "collected"

\* C34: every outcome process_single returned has (1) with a rigged path also
\* a mesh path and no error, (2) without a mesh path an error, that of the
\* mesh stage, and no rigged path, (3) with an error no rigged path; and after
\* a failure of the decimation or of the rig stage the mesh path is set.
C34_OutcomeFields ==
    \A k \in 1..Len(results) :
       /\ results[k].rigged_path # <<>>
            => results[k].mesh_path # <<>> /\ results[k].error = ""
       /\ results[k].mesh_path = <<>>
            => /\ results[k].error = "mesh generation"
               /\ results[k].rigged_path = <<>>
               /\ item[ItemOf(k)].fate.mesh = "fail"
       /\ results[k].error # "" => results[k].rigged_path = <<>>
       /\ (item[ItemOf(k)].fate.decimate = "fail" \/ item[ItemOf(k)].fate.rig = "fail")
            => results[k].mesh_path # <<>>

C34_Witness ==
    /\ Len(results) = 3
    /\ results[1].rigged_path # <<>>
    /\ results[2].mesh_path = <<>>
    /\ results[3].mesh_path # <<>>
    /\ item[ItemOf(3)].fate.decimate = "fail"

\* C35: in an outcome the mesh time is recorded exactly when the mesh stage
\* was invoked and the rig time exactly when the rig stage was invoked,
\* whether the stage succeeded or failed.
C35_TimingOfEveryStageRun ==
    \A k \in 1..Len(results) :
       /\ results[k].mesh_timed <=> item[ItemOf(k)].fate.mesh # "-"
       /\ results[k].rig_timed <=> item[ItemOf(k)].fate.rig # "-"


\* The stages of item i that have been invoked so far.
StagesOf(i) == {item[i].invoked[k] : k \in 1..Len(item[i].invoked)}

\* C33: with workers = W > 1, at every point at most W items are in progress,
\* the items in progress are in distinct workers of the pool, an item stays in
\* the worker that started it for all of its stages, and no item is processed
\* twice: it never goes back to an earlier stage, no stage of it is invoked
\* twice, and it is reported at most once.
C33_BoundedParallelism ==
    /\ [](cfg.workers > 1 =>
            /\ Cardinality(Running) <= cfg.workers
            /\ \A i \in Items :
                  /\ item[i].st # "pending" => item[i].worker \in 1..cfg.workers
                  /\ item[i].st = "pending" => item[i].worker = -1
                  /\ Cardinality(StagesOf(i)) = Len(item[i].invoked)
                  /\ Cardinality({k \in 1..Len(results) :
                                     results[k].image = item[i].image}) <= 1
            /\ \A i, j \in Running : i # j => item[i].worker # item[j].worker)
    /\ [][cfg.workers > 1 =>
            \A i \in Items :
               (i \in DOMAIN item' /\ item[i].st # "pending")
                  => /\ item'[i].worker = item[i].worker
                     /\ item'[i].st \notin {"pending", "mesh"} \/ item'[i].st = item[i].st
                     /\ item[i].st \in {"returned", "collected"}
                           => item'[i].invoked = item[i].invoked]_vars

C33_Witness ==
    /\ cfg.workers = MaxWorkers
    /\ Len(item) = 3
    /\ Cardinality(Running) = cfg.workers
    /\ item[1].st = "rig" /\ item[1].worker = 1
    /\ item[2].st = "collected" /\ item[2].worker = 2
    /\ item[3].st = "decimate" /\ item[3].worker = 2


\* C37: for every item whose rig stage has ended, the stage failed (error of
\* the rig stage, no rigged path) if Blender exited with a nonzero code, and
\* also if it exited with zero and there is no file at the output path; it
\* succeeded, and the rigged path is set, exactly when the exit code is zero
\* and the output file exists.
C37_RigDetectsMissingOutput ==
    \A i \in Items :
       item[i].fate.rig # "-" =>
          /\ item[i].rig_exit # 0
                => item[i].fate.rig = "fail" /\ item[i].error = "rigging"
          /\ (item[i].rig_exit = 0 /\ ~item[i].rig_output)
                => item[i].fate.rig = "fail" /\ item[i].error = "rigging"
          /\ item[i].fate.rig = "ok" <=> (item[i].rig_exit = 0 /\ item[i].rig_output)
          /\ item[i].rigged_path # <<>> <=> (item[i].rig_exit = 0 /\ item[i].rig_output)

C37_Witness ==
    /\ Len(item) = 3
    /\ item[1].fate.rig = "fail" /\ item[1].rig_exit = 0 /\ ~item[1].rig_output
    /\ item[1].rigged_path = <<>>
    /\ item[2].fate.rig = "fail" /\ item[2].rig_exit = 1 /\ item[2].rig_output
    /\ item[3].fate.rig = "ok" /\ item[3].rigged_path # <<>>


(***************************************************************************)
(* Properties of find_images.                                              *)
(***************************************************************************)
\* The path as one string, its names joined with "/".
RECURSIVE joined(_)
joined(p) == IF Len(p) = 1 THEN p[1] ELSE p[1] \o <<"/">> \o joined(Tail(p))

\* The image files of the directory given to find_images.
ImagePaths == {Root \o f.rel : f \in {g \in disc.files : g.image}}

\* What find_images returned is the image files, each once.
FoundTheImages ==
    /\ {disc.found[k] : k \in 1..Len(disc.found)} = ImagePaths
    /\ Len(disc.found) = Cardinality(ImagePaths)

\* C36, as stated: for a directory, find_images returns exactly the regular
\* files below it whose extension, case ignored, is in the allow-list, each
\* once, in the lexicographic order of their full paths; for a single file it
\* returns that one file.
C36_DiscoveryAsStated ==
    disc.pc = "done" =>
       IF disc.is_file
       THEN disc.found = <<disc.input>>
       ELSE /\ FoundTheImages
            /\ \A k, l \in 1..Len(disc.found) :
                  k < l => str_lt(joined(disc.found[k]), joined(disc.found[l]))

\* C36, amended: as above, the order being that of the paths compared name by
\* name, which is not the order of the path strings when a name holds a
\* character below "/": a/m/b.png comes before a/m-o/a.png.
C36_Discovery ==
    disc.pc = "done" =>
       IF disc.is_file
       THEN disc.found = <<disc.input>>
       ELSE /\ FoundTheImages
            /\ \A k, l \in 1..Len(disc.found) :
                  k < l => /\ path_lt(disc.found[k], disc.found[l])
                           /\ \E n \in 1..Len(disc.found[k]) :
                                 /\ n <= Len(disc.found[l])
                                 /\ SubSeq(disc.found[k], 1, n - 1) = SubSeq(disc.found[l], 1, n - 1)
                                 /\ disc.found[k][n] # disc.found[l][n]
                                 /\ str_lt(disc.found[k][n], disc.found[l][n])

C36_Witness ==
    /\ disc.pc = "done"
    /\ ~disc.is_file
    /\ disc.files = FilesBelow
    /\ Len(disc.found) = 7
    /\ disc.found[2] = Root \o << <<"m">>, <<"b", ".", "p", "n", "g">> >>
    /\ disc.found[3] = Root \o << <<"m">>, <<"u">>, <<"o", ".", "P", "N", "G">> >>
    /\ disc.found[5] = Root \o << <<"m", "-", "o">>, <<"a", ".", "p", "n", "g">> >>


\* The stages that ran for item i are those that the configuration, the worker
\* count apart, and the results of the item's earlier stages call for.
StagesRun(i) ==
    /\ item[i].fate.mesh # "-"
    /\ item[i].fate.decimate # "-" <=> (item[i].fate.mesh = "ok" /\ ~cfg.max_faces.none)
    /\ item[i].fate.rig # "-" <=> (PastGate(i) /\ GateOpen(item[i].image))

\* The outcome of item i, timings apart, as its image, the configuration
\* without the worker count, and the results of its stages give it.
ExpectedEntry(i) ==
    LET r == item[i]
        rel_parent == SubSeq(r.image.dir, Len(input_root) + 1, Len(r.image.dir))
        out == cfg.output_dir \o rel_parent \o <<r.image.stem>>
    IN [name |-> r.image.stem,
        image |-> r.image,
        mesh_path |-> IF r.fate.mesh = "ok" THEN out \o <<"0", "mesh.obj">> ELSE <<>>,
        rigged_path |-> IF r.fate.rig = "ok"
                        THEN out \o <<r.image.stem \o "_rigged", cfg.export_format>>
                        ELSE <<>>,
        error |-> CASE r.fate.mesh = "fail" -> "mesh generation"
                    [] r.fate.decimate = "fail" -> "decimation"
                    [] r.fate.rig = "fail" -> "rigging"
                    [] OTHER -> ""]

\* An entry of the report without its timings.
Untimed(e) ==
    [name |-> e.name, image |-> e.image, mesh_path |-> e.mesh_path,
     rigged_path |-> e.rigged_path, error |-> e.error]

\* C38: the set of outcomes of a finished run, timings ignored, is given by
\* the items, the configuration without the worker count, and the per-item
\* stage results alone, so it is the same set with workers > 1, in whatever
\* order the workers finish, as with workers <= 1.
C38_ReportIndependentOfWorkers ==
    mainpc = "done" =>
       /\ \A i \in Items : StagesRun(i)
       /\ {Untimed(Report[k]) : k \in 1..Len(Report)} = {ExpectedEntry(i) : i \in Items}
       /\ Len(Report) = Len(item)

C38_Witness ==
    /\ mainpc = "done"
    /\ cfg.workers = MaxWorkers
    /\ Len(item) = 3
    /\ Report[1].image = item[3].image
    /\ Report[1].rigged_path # <<>>
    /\ Report[2].image = item[1].image
    /\ Report[2].error = "rigging"
    /\ Report[3].error = "mesh generation"


(***************************************************************************)
(* Properties of call_api.                                                 *)
(***************************************************************************)
ApiOver == api.pc \in {"returned", "raised"}

\* The requests sent so far that came to a response other than 429.
Answered == {k \in 1..Len(api.sent) : api.sent[k] \in Statuses \ {"429"}}

\* C39: whatever the responses and network errors, call_api sends at most
\* max_retries requests and then ends; it returns the first response that is
\* not a 429, no request being sent after it; it returns the last 429 when
\* every attempt was answered with 429; and it raises the network error only
\* when the last of the max_retries attempts failed with one.
C39_BoundedRetry ==
    /\ [](/\ Len(api.sent) <= api.max_retries
          /\ \A k \in Answered :
                /\ k = Len(api.sent)
                /\ api.pc = "returned"
                /\ api.result = api.sent[k]
          /\ (api.pc = "returned" /\ Answered = {})
                => /\ Len(api.sent) = api.max_retries
                   /\ api.result = (IF api.sent = <<>> THEN "None" ELSE "429")
                   /\ api.sent # <<>> => api.sent[Len(api.sent)] = "429"
          /\ (ApiOver /\ api.sent # <<>> /\ \A k \in 1..Len(api.sent) : api.sent[k] = "429")
                => api.pc = "returned" /\ api.result = "429"
          /\ api.pc = "raised"
                <=> /\ Len(api.sent) = api.max_retries
                    /\ api.sent # <<>>
                    /\ api.sent[Len(api.sent)] = "RequestException")
    /\ <>ApiOver
    /\ [][ApiOver => api' = api]_vars

C39_Witness ==
    /\ api.max_retries = MaxRetries
    /\ api.pc = "returned"
    /\ api.sent = <<"429", "RequestException", "429", "RequestException", "429">>
    /\ api.result = "429"


(***************************************************************************)
(* Properties of two fetches on one destination.                           *)
(***************************************************************************)
\* Both calls read the length of the partial file in the same state of the
\* file, and both then appended the same range of bytes of the remote file.
SameRangeTwice == conc.p[1].put \cap conc.p[2].put # {}

\* A call has returned success and the destination is not the remote file.
WrongSuccess ==
    /\ \E p \in Procs : conc.p[p].result = "True"
    /\ dest.exists
    /\ dest.data # remote

=============================================================================
